---- MODULE Spec2Model ----
(***************************************************************************)
(* A model of the mark-sweep collector of src/src/main.c: the VM (heap     *)
(* chain, object counters, root stack), the mutator operations             *)
(* vm_push_int, vm_push_pair, vm_pop, direct head/tail assignment, gc and  *)
(* free_vm, and the collector itself, stepped statement by statement.      *)
(* The program is single-threaded: pc is the position of its one thread of *)
(* control, and while an operation is in progress only its own next step   *)
(* is enabled.                                                             *)
(*                                                                         *)
(* Spec lets the mutator call any operation in any order on a small        *)
(* machine; Test4 runs the script of test4 (and its variant with the       *)
(* Pairs popped) on a machine large enough for it.                         *)
(***************************************************************************)
EXTENDS Integers, Sequences, FiniteSets

VARIABLES heap, first_object, object_num, object_max, stack,
          pc, op, arg, ret, i, frames, obj, err, assigned,
          pre, lim

vars == <<heap, first_object, object_num, object_max, stack,
          pc, op, arg, ret, i, frames, obj, err, assigned,
          pre, lim>>

(***************************************************************************)
(* Bounds and constants.                                                   *)
(***************************************************************************)
\* Number of Object cells malloc can hand out before it returns NULL.
MaxObjects == 3

\* Capacity of the root stack (vm->stack).  The source sets 256; the model
\* scales it down so that a full stack is reachable with MaxObjects cells.
STACK_MAX == 2

GC_INITIAL_THRESHOLD == 8

\* Number of direct head/tail assignments the mutator makes on one VM.
MaxAssign == 1

\* The int payloads the mutator pushes; the collector never reads them.
Values == {1}

NULL == 0

\* lim holds the limits of one run, which no step changes: the number of
\* cells of memory (cells), the capacity of the root stack (stack_max) and
\* the number of direct head/tail assignments the mutator makes (assign).
Addr == 1..lim.cells

OBJECT_TYPE_INT == "INT"
OBJECT_TYPE_PAIR == "PAIR"

\* Depth of C call stack available to the recursion of gc_mark.
MaxFrames == lim.cells + 2

(***************************************************************************)
(* Object: one cell of the heap.  A cell that is not allocated (never      *)
(* handed out, or freed) is FreeCell.  A freshly allocated cell has an     *)
(* uninitialised payload, written as value 0 / head NULL / tail NULL.      *)
(***************************************************************************)
FreeCell ==
    [alloc |-> FALSE, mark |-> 0, next |-> NULL, type |-> OBJECT_TYPE_INT,
     value |-> 0, head |-> NULL, tail |-> NULL]

\* Faulty variant: new_object leaves the mark of the new object set.
Object_marked(type, next) ==
    [alloc |-> TRUE, mark |-> 1, next |-> next, type |-> type,
     value |-> 0, head |-> NULL, tail |-> NULL]

Object(type, next) ==
    [alloc |-> TRUE, mark |-> 0, next |-> next, type |-> type,
     value |-> 0, head |-> NULL, tail |-> NULL]

stack_size == Len(stack)

(***************************************************************************)
(* Observers of the heap, used by the history snapshot and the properties. *)
(***************************************************************************)
RECURSIVE ChainFrom(_, _)
ChainFrom(a, seen) ==
    IF a = NULL \/ a \in seen THEN <<>>
    ELSE <<a>> \o ChainFrom(heap[a].next, seen \cup {a})

\* The heap chain, from vm->first_object along ->next.
Chain == ChainFrom(first_object, {})

ChainSet == {Chain[k] : k \in 1..Len(Chain)}

Children(a) ==
    IF a \in Addr /\ heap[a].type = OBJECT_TYPE_PAIR
    THEN {heap[a].head, heap[a].tail} \ {NULL}
    ELSE {}

RECURSIVE Closure(_)
Closure(S) ==
    LET T == S \cup UNION {Children(a) : a \in S}
    IN IF T = S THEN S ELSE Closure(T)

Roots(stk) == {stk[k] : k \in 1..Len(stk)}

\* Objects transitively reachable from the root stack through head/tail.
Reachable == Closure(Roots(stack))

(***************************************************************************)
(* History: what the collection of the current (or last) operation saw     *)
(* when it started.  It is reset when the next operation begins.           *)
(***************************************************************************)
NoSnap ==
    [status |-> "none", second |-> FALSE, reach |-> {}, chain |-> <<>>,
     num |-> 0, max |-> 0, stack |-> <<>>, heap |-> <<>>,
     entered |-> <<>>]

\* status: "none" (no collection in this operation so far), "noop" (line
\* 156 returned), "marking", "sweeping", "swept" (done);
\* second: the collection was called right after another one returned;
\* entered: the objects gc_mark has marked so far, in order.
Snapshot(status, second) ==
    [status |-> status, second |-> second, reach |-> Reachable,
     chain |-> Chain, num |-> object_num, max |-> object_max,
     stack |-> stack, heap |-> heap, entered |-> <<>>]

\* What vm_push_int and vm_push_pair were called with: the chain, the
\* counters and the root stack, kept until a collection of the operation
\* takes its own snapshot (of the same state, as none has changed).
Called ==
    [NoSnap EXCEPT !.chain = Chain, !.num = object_num, !.max = object_max,
                   !.stack = stack]

(***************************************************************************)
(* new_vm                                                                  *)
(***************************************************************************)
\* The machine the program runs on and the mutator's budget.
Limits ==
    [cells |-> MaxObjects, stack_max |-> STACK_MAX, assign |-> MaxAssign]

\* The state when new_vm has returned, on a machine with limits l.
Boot(l) ==
    /\ lim = l
    /\ heap = [a \in 1..l.cells |-> FreeCell]
    /\ first_object = NULL
    /\ object_num = 0
    /\ object_max = GC_INITIAL_THRESHOLD
    /\ stack = <<>>
    /\ pc = "idle"
    /\ op = "new_vm"
    /\ arg = 0
    /\ ret = NULL
    /\ i = 0
    /\ frames = <<>>
    /\ obj = NULL
    /\ err = ""
    /\ assigned = 0
    /\ pre = NoSnap

Init == Boot(Limits)

\* A test that has torn its VM down builds the next one.
new_vm ==
    /\ pc = "freed"
    /\ heap' = [a \in Addr |-> FreeCell]
    /\ first_object' = NULL
    /\ object_num' = 0
    /\ object_max' = GC_INITIAL_THRESHOLD
    /\ stack' = <<>>
    /\ pc' = "idle"
    /\ op' = "new_vm"
    /\ arg' = 0
    /\ ret' = NULL
    /\ i' = 0
    /\ frames' = <<>>
    /\ obj' = NULL
    /\ err' = ""
    /\ assigned' = 0
    /\ pre' = NoSnap
    /\ UNCHANGED lim

\* Faulty variant: a failed assert reports the message and returns.
Abort_returns(msg) ==
    /\ pc' = "idle"
    /\ err' = msg

\* A failed assert: the process is terminated with the message.
Abort(msg) ==
    /\ pc' = "abort"
    /\ err' = msg

(***************************************************************************)
(* vm_pop, called by the mutator.                                          *)
(***************************************************************************)
vm_pop ==
    /\ pc = "idle"
    /\ op' = "vm_pop"
    /\ pre' = NoSnap
    /\ IF stack_size > 0
       THEN /\ stack' = SubSeq(stack, 1, stack_size - 1)
            /\ UNCHANGED <<pc, err>>
       ELSE /\ Abort("stack underflow")
            /\ UNCHANGED stack
    /\ ret' = NULL
    /\ UNCHANGED <<lim, assigned, heap, first_object, object_num, object_max,
                   arg, i, frames, obj>>

(***************************************************************************)
(* The mutator assigns p->head = q or p->tail = q through pointers it      *)
(* holds to objects on the heap chain (test4: a->tail = b).                *)
(***************************************************************************)
set_head(p, q) ==
    /\ pc = "idle"
    /\ p \in ChainSet /\ heap[p].type = OBJECT_TYPE_PAIR
    /\ q \in ChainSet
    /\ heap[p].head # q
    /\ assigned < lim.assign
    /\ assigned' = assigned + 1
    /\ heap' = [heap EXCEPT ![p].head = q]
    /\ op' = "set_head"
    /\ pre' = NoSnap
    /\ ret' = NULL
    /\ UNCHANGED <<lim, first_object, object_num, object_max, stack, pc, arg,
                   i, frames, obj, err>>

set_tail(p, q) ==
    /\ pc = "idle"
    /\ p \in ChainSet /\ heap[p].type = OBJECT_TYPE_PAIR
    /\ q \in ChainSet
    /\ heap[p].tail # q
    /\ assigned < lim.assign
    /\ assigned' = assigned + 1
    /\ heap' = [heap EXCEPT ![p].tail = q]
    /\ op' = "set_tail"
    /\ pre' = NoSnap
    /\ ret' = NULL
    /\ UNCHANGED <<lim, first_object, object_num, object_max, stack, pc, arg,
                   i, frames, obj, err>>

(***************************************************************************)
(* vm_push_int and vm_push_pair: the call, then new_object, then the rest  *)
(* of the body.                                                            *)
(***************************************************************************)
\* Faulty variant: collect only once the count has passed the threshold.
ShouldCollect_late == object_num > object_max

FreeCells == {a \in Addr : ~heap[a].alloc}

\* malloc: the lowest free cell, or NULL when there is none.  Which free
\* cell malloc hands out cannot be observed: the program never compares
\* addresses and keeps no pointer to a freed object.
malloc ==
    IF FreeCells = {} THEN NULL
    ELSE CHOOSE a \in FreeCells : \A b \in FreeCells : a <= b

\* Faulty variant: new_object never collects.
ShouldCollect_never == FALSE

\* The test of line 81.
ShouldCollect == object_num = object_max

\* The mutator asks for an object while memory is left, or when the
\* allocation is going to collect first (which may free some).
MayAllocate == FreeCells # {} \/ ShouldCollect

vm_push_int_call(v) ==
    /\ pc = "idle"
    /\ MayAllocate
    /\ op' = "vm_push_int"
    /\ arg' = v
    /\ ret' = NULL
    /\ pre' = Called
    /\ pc' = "new_object"
    /\ UNCHANGED <<lim, assigned, heap, first_object, object_num, object_max,
                   stack, i, frames, obj, err>>

vm_push_pair_call ==
    /\ pc = "idle"
    /\ MayAllocate
    /\ op' = "vm_push_pair"
    /\ arg' = 0
    /\ ret' = NULL
    /\ pre' = Called
    /\ pc' = "new_object"
    /\ UNCHANGED <<lim, assigned, heap, first_object, object_num, object_max,
                   stack, i, frames, obj, err>>

\* The type vm_push_int and vm_push_pair ask new_object for.
TypeOf(o) == IF o = "vm_push_pair" THEN OBJECT_TYPE_PAIR ELSE OBJECT_TYPE_INT

\* Faulty variant: new_object links and counts the object before it tests
\* the count and collects.
new_object_links_first ==
    /\ pc = "new_object"
    /\ malloc # NULL
    /\ heap' = [heap EXCEPT ![malloc] = Object(TypeOf(op), first_object)]
    /\ first_object' = malloc
    /\ object_num' = object_num + 1
    /\ ret' = malloc
    /\ pc' = IF object_num + 1 = object_max THEN "gc" ELSE op
    /\ UNCHANGED <<lim, assigned, object_max, stack, op, arg, i, frames, obj,
                   err, pre>>

\* new_object, line 81: collect first when the count has reached the threshold.
new_object ==
    /\ pc = "new_object"
    /\ pc' = IF ShouldCollect THEN "gc" ELSE "alloc"
    /\ UNCHANGED <<lim, assigned, heap, first_object, object_num, object_max,
                   stack, op, arg, ret, i, frames, obj, err, pre>>

\* Faulty variant: new_object links the object without counting it.
new_object_alloc_uncounted ==
    /\ pc = "alloc"
    /\ LET new == malloc IN
       IF new = NULL
       THEN /\ Abort("Object allocation failed")
            /\ UNCHANGED <<heap, first_object, ret>>
       ELSE /\ heap' = [heap EXCEPT ![new] = Object(TypeOf(op), first_object)]
            /\ first_object' = new
            /\ ret' = new
            /\ pc' = op
            /\ UNCHANGED err
    /\ UNCHANGED <<lim, assigned, object_num, object_max, stack, op, arg, i,
                   frames, obj, pre>>

\* new_object, lines 82-93: allocate, link at the head of the chain, count.
new_object_alloc ==
    /\ pc = "alloc"
    /\ LET new == malloc IN
       IF new = NULL
       THEN /\ Abort("Object allocation failed")
            /\ UNCHANGED <<heap, first_object, object_num, ret>>
       ELSE /\ heap' = [heap EXCEPT ![new] = Object(TypeOf(op), first_object)]
            /\ first_object' = new
            /\ object_num' = object_num + 1
            /\ ret' = new
            /\ pc' = op
            /\ UNCHANGED err
    /\ UNCHANGED <<lim, assigned, object_max, stack, op, arg, i, frames, obj,
                   pre>>

\* vm_push_int, lines 98-102: set the value, vm_push (assert of line 69).
vm_push_int ==
    /\ pc = "vm_push_int"
    /\ heap' = [heap EXCEPT ![ret].value = arg]
    /\ IF stack_size < lim.stack_max
       THEN /\ stack' = Append(stack, ret)
            /\ pc' = "idle"
            /\ arg' = 0
            /\ UNCHANGED err
       ELSE /\ Abort("stack overflow")
            /\ UNCHANGED <<stack, arg>>
    /\ UNCHANGED <<lim, assigned, first_object, object_num, object_max, op,
                   ret, i, frames, obj, pre>>

\* Faulty variant: vm_push_pair pops the head first and the tail second.
vm_push_pair_swapped ==
    /\ pc = "vm_push_pair"
    /\ IF stack_size = 0
       THEN /\ Abort("stack underflow")
            /\ UNCHANGED <<heap, stack>>
       ELSE IF stack_size = 1
       THEN /\ heap' = [heap EXCEPT ![ret].head = stack[1]]
            /\ stack' = <<>>
            /\ Abort("stack underflow")
       ELSE /\ heap' = [heap EXCEPT ![ret].head = stack[stack_size],
                                    ![ret].tail = stack[stack_size - 1]]
            /\ stack' = Append(SubSeq(stack, 1, stack_size - 2), ret)
            /\ pc' = "idle"
            /\ UNCHANGED err
    /\ UNCHANGED <<lim, assigned, first_object, object_num, object_max, op,
                   arg, ret, i, frames, obj, pre>>

\* vm_push_pair, lines 107-112: tail = vm_pop, head = vm_pop (asserts of
\* line 74), vm_push.
vm_push_pair ==
    /\ pc = "vm_push_pair"
    /\ IF stack_size = 0
       THEN /\ Abort("stack underflow")
            /\ UNCHANGED <<heap, stack>>
       ELSE IF stack_size = 1
       THEN /\ heap' = [heap EXCEPT ![ret].tail = stack[1]]
            /\ stack' = <<>>
            /\ Abort("stack underflow")
       ELSE /\ heap' = [heap EXCEPT ![ret].tail = stack[stack_size],
                                    ![ret].head = stack[stack_size - 1]]
            /\ stack' = Append(SubSeq(stack, 1, stack_size - 2), ret)
            /\ pc' = "idle"
            /\ UNCHANGED err
    /\ UNCHANGED <<lim, assigned, first_object, object_num, object_max, op,
                   arg, ret, i, frames, obj, pre>>

(***************************************************************************)
(* gc, called by the mutator, by new_object (line 81) or by free_vm.       *)
(***************************************************************************)
gc_call ==
    /\ pc = "idle"
    /\ pre' = [NoSnap EXCEPT !.second = (op = "gc")]
    /\ op' = "gc"
    /\ arg' = 0
    /\ ret' = NULL
    /\ pc' = "gc"
    /\ UNCHANGED <<lim, assigned, heap, first_object, object_num, object_max,
                   stack, i, frames, obj, err>>

\* Faulty variant: free_vm collects without emptying the root stack.
free_vm_call_keeps_stack ==
    /\ pc = "idle"
    /\ pre' = NoSnap
    /\ op' = "free_vm"
    /\ arg' = 0
    /\ ret' = NULL
    /\ pc' = "gc"
    /\ UNCHANGED <<lim, assigned, heap, first_object, object_num, object_max,
                   stack, i, frames, obj, err>>

\* free_vm, lines 116-117: empty the root stack, then collect.
free_vm_call ==
    /\ pc = "idle"
    /\ stack' = <<>>
    /\ pre' = NoSnap
    /\ op' = "free_vm"
    /\ arg' = 0
    /\ ret' = NULL
    /\ pc' = "gc"
    /\ UNCHANGED <<lim, assigned, heap, first_object, object_num, object_max,
                   i, frames, obj, err>>

\* Where gc returns to: the caller's next statement.
ReturnFromGc ==
    CASE op = "gc" -> "idle"
      [] op = "free_vm" -> "freed"
      [] OTHER -> "alloc"

\* Faulty variant: gc without the early return of line 156.
gc_no_early_return ==
    /\ pc = "gc"
    /\ pre' = Snapshot("marking", pre.second)
    /\ pc' = "gc_mark_all"
    /\ i' = 0
    /\ UNCHANGED <<lim, assigned, heap, first_object, object_num, object_max,
                   stack, op, arg, ret, frames, obj, err>>

\* gc, line 156: nothing to do on an empty heap; else start marking.
gc ==
    /\ pc = "gc"
    /\ IF object_num = 0
       THEN /\ pre' = Snapshot("noop", pre.second)
            /\ pc' = ReturnFromGc
       ELSE /\ pre' = Snapshot("marking", pre.second)
            /\ pc' = "gc_mark_all"
    /\ i' = 0
    /\ UNCHANGED <<lim, assigned, heap, first_object, object_num, object_max,
                   stack, op, arg, ret, frames, obj, err>>

\* Faulty variant: the loop of gc_mark_all stops one root early.
MoreRoots_one_short == i + 1 < stack_size

\* The loop test of line 134.
MoreRoots == i < stack_size

\* gc_mark_all, lines 134-136: call gc_mark on the next root, or finish and
\* enter gc_sweep (line 140: obj = &vm->first_object, written NULL).
gc_mark_all ==
    /\ pc = "gc_mark_all"
    /\ IF MoreRoots
       THEN /\ frames' = <<[obj |-> stack[i + 1], at |-> "enter"]>>
            /\ pc' = "gc_mark"
            /\ UNCHANGED <<obj, pre>>
       ELSE /\ obj' = NULL
            /\ pc' = "gc_sweep"
            /\ pre' = [pre EXCEPT !.status = "sweeping"]
            /\ UNCHANGED frames
    /\ UNCHANGED <<lim, assigned, heap, first_object, object_num, object_max,
                   stack, op, arg, ret, i, err>>

Top == frames[Len(frames)]

\* return from gc_mark: to the calling gc_mark, or to the loop of gc_mark_all.
Return ==
    /\ frames' = SubSeq(frames, 1, Len(frames) - 1)
    /\ IF Len(frames) = 1
       THEN pc' = "gc_mark_all" /\ i' = i + 1
       ELSE UNCHANGED <<pc, i>>
    /\ UNCHANGED err

\* a recursive call of gc_mark on o; the C stack is finite.
Call(o, resume) ==
    IF Len(frames) < MaxFrames
    THEN /\ frames' = [frames EXCEPT ![Len(frames)].at = resume]
                          \o <<[obj |-> o, at |-> "enter"]>>
         /\ UNCHANGED <<pc, i, err>>
    ELSE /\ Abort("C stack exhausted")
         /\ UNCHANGED <<frames, i>>

\* Faulty variant: gc_mark without the test for an object that is already
\* marked.
AlreadyMarked_never(o) == FALSE

\* The test of line 125.
AlreadyMarked(o) == heap[o].mark # 0

\* gc_mark, lines 125-127: return if marked, else mark; descend into a Pair.
gc_mark_enter ==
    /\ pc = "gc_mark"
    /\ Top.at = "enter"
    /\ IF AlreadyMarked(Top.obj)
       THEN /\ Return
            /\ UNCHANGED heap
            /\ UNCHANGED pre
       ELSE /\ heap' = [heap EXCEPT ![Top.obj].mark = 1]
            /\ pre' = [pre EXCEPT !.entered = Append(@, Top.obj)]
            /\ IF heap[Top.obj].type = OBJECT_TYPE_PAIR
               THEN /\ frames' = [frames EXCEPT ![Len(frames)].at = "head"]
                    /\ UNCHANGED <<pc, i, err>>
               ELSE Return
    /\ UNCHANGED <<lim, assigned, first_object, object_num, object_max, stack,
                   op, arg, ret, obj>>

\* Faulty variant: gc_mark does not descend into the head of a Pair.
gc_mark_head_skipped ==
    /\ pc = "gc_mark"
    /\ Top.at = "head"
    /\ frames' = [frames EXCEPT ![Len(frames)].at = "tail"]
    /\ UNCHANGED <<lim, assigned, heap, first_object, object_num, object_max,
                   stack, pc, op, arg, ret, i, obj, err, pre>>

\* gc_mark, line 128: gc_mark(obj->head).
gc_mark_head ==
    /\ pc = "gc_mark"
    /\ Top.at = "head"
    /\ Call(heap[Top.obj].head, "tail")
    /\ UNCHANGED <<lim, assigned, heap, first_object, object_num, object_max,
                   stack, op, arg, ret, obj, pre>>

\* gc_mark, line 129: gc_mark(obj->tail).
gc_mark_tail ==
    /\ pc = "gc_mark"
    /\ Top.at = "tail"
    /\ Call(heap[Top.obj].tail, "end")
    /\ UNCHANGED <<lim, assigned, heap, first_object, object_num, object_max,
                   stack, op, arg, ret, obj, pre>>

\* gc_mark, line 131: the end of the function.
gc_mark_end ==
    /\ pc = "gc_mark"
    /\ Top.at = "end"
    /\ Return
    /\ UNCHANGED <<lim, assigned, heap, first_object, object_num, object_max,
                   stack, op, arg, ret, obj, pre>>

\* *obj in gc_sweep: obj is &vm->first_object (NULL here) or &o->next (o).
Deref == IF obj = NULL THEN first_object ELSE heap[obj].next

\* Faulty variant: the test of the sweep is inverted.
Unreached_inverted(o) == heap[o].mark # 0

\* The test of line 142.
Unreached(o) == heap[o].mark = 0

\* Faulty variant: the sweep forgets --vm->object_num.
Decrement_forgotten(n) == n

\* Line 147.
Decrement(n) == n - 1

\* Faulty variant: the sweep leaves the mark of a kept object set.
ClearMark_forgotten(o) == heap

\* Line 149.
ClearMark(o) == [heap EXCEPT ![o].mark = 0]

\* gc_sweep, lines 141-152, one iteration of the loop; after the loop,
\* line 163 is next.
gc_sweep ==
    /\ pc = "gc_sweep"
    /\ LET cur == Deref IN
       IF cur = NULL
       THEN /\ pc' = "gc_adjust"
            /\ UNCHANGED <<heap, first_object, object_num, obj>>
       ELSE IF Unreached(cur)
       THEN /\ IF obj = NULL
               THEN /\ first_object' = heap[cur].next
                    /\ heap' = [heap EXCEPT ![cur] = FreeCell]
               ELSE /\ heap' = [heap EXCEPT ![obj].next = heap[cur].next,
                                            ![cur] = FreeCell]
                    /\ UNCHANGED first_object
            /\ object_num' = Decrement(object_num)
            /\ UNCHANGED <<pc, obj>>
       ELSE /\ heap' = ClearMark(cur)
            /\ obj' = cur
            /\ UNCHANGED <<pc, first_object, object_num>>
    /\ UNCHANGED <<lim, assigned, object_max, stack, op, arg, ret, i, frames,
                   err, pre>>

\* Faulty variant: the threshold is twice the live count even when that is zero.
Threshold_no_reset(n) == n * 2

\* Faulty variant: the threshold is the live count, not twice it.
Threshold_not_doubled(n) == IF n # 0 THEN n ELSE GC_INITIAL_THRESHOLD

\* Faulty variant: the old threshold is doubled instead of the live count.
Threshold_grows(n) == IF n # 0 THEN object_max * 2 ELSE GC_INITIAL_THRESHOLD

\* Faulty variant: the threshold is left as it was.
Threshold_unchanged(n) == object_max

\* The right-hand side of line 163.
Threshold(n) == IF n # 0 THEN n * 2 ELSE GC_INITIAL_THRESHOLD

\* gc, line 163, and the return to the caller.
gc_adjust ==
    /\ pc = "gc_adjust"
    /\ object_max' = Threshold(object_num)
    /\ pre' = [pre EXCEPT !.status = "swept"]
    /\ pc' = ReturnFromGc
    /\ i' = 0
    /\ obj' = NULL
    /\ UNCHANGED <<lim, assigned, heap, first_object, object_num, stack, op,
                   arg, ret, frames, err>>

Next ==
    \/ vm_pop
    \/ \E p, q \in Addr : set_head(p, q)
    \/ \E p, q \in Addr : set_tail(p, q)
    \/ \E v \in Values : vm_push_int_call(v)
    \/ vm_push_pair_call
    \/ new_object
    \/ new_object_alloc
    \/ vm_push_int
    \/ vm_push_pair
    \/ gc_call
    \/ free_vm_call
    \/ gc
    \/ gc_mark_all
    \/ gc_mark_enter
    \/ gc_mark_head
    \/ gc_mark_tail
    \/ gc_mark_end
    \/ gc_sweep
    \/ gc_adjust
    \/ new_vm

Spec == Init /\ [][Next]_vars

\* The steps of the collector.  gc is synchronous code of a single-threaded
\* program: once called it keeps executing until it returns.
Collect ==
    \/ gc
    \/ gc_mark_all
    \/ gc_mark_enter
    \/ gc_mark_head
    \/ gc_mark_tail
    \/ gc_mark_end
    \/ gc_sweep
    \/ gc_adjust

(***************************************************************************)
(* test4, lines 207-221: the mutator builds the Pairs a = (1, 2) and        *)
(* b = (3, 4), assigns a->tail = b and b->tail = a, collects and tears the  *)
(* VM down.  Before it collects it may also pop b, or b and a, from the     *)
(* root stack, which leaves the cycle partly or wholly unrooted.  The       *)
(* position of the mutator in the script is read from the state.            *)
(***************************************************************************)
\* test4 needs six cells, three stack slots and two assignments.
Test4Limits == [cells |-> 6, stack_max |-> 3, assign |-> 2]

\* The Pair whose head is the int v: a is the one of 1, b the one of 3.
PairOf(h, v) ==
    CHOOSE p \in Addr :
        /\ h[p].alloc
        /\ h[p].type = OBJECT_TYPE_PAIR
        /\ h[p].head # NULL
        /\ h[h[p].head].value = v

test4_a == PairOf(heap, 1)

test4_b == PairOf(heap, 3)

\* Lines 209-214 are not all done yet.
test4_building ==
    /\ pc = "idle"
    /\ op \in {"new_vm", "vm_push_int", "vm_push_pair"}
    /\ assigned = 0

\* Lines 209-214 are done and gc (line 217) has not been called.
test4_built ==
    /\ pc = "idle"
    /\ object_num = 6
    /\ op # "gc"

\* Lines 210, 211, 213, 214: vm_push_int(vm, 1) ... vm_push_int(vm, 4).
test4_push_int ==
    /\ test4_building
    /\ <<object_num, stack_size>> \in {<<0, 0>>, <<1, 1>>, <<3, 1>>, <<4, 2>>}
    /\ vm_push_int_call(IF object_num < 2 THEN object_num + 1 ELSE object_num)

\* Lines 212 and 215: a = vm_push_pair(vm), b = vm_push_pair(vm).
test4_push_pair ==
    /\ test4_building
    /\ <<object_num, stack_size>> \in {<<2, 2>>, <<5, 3>>}
    /\ vm_push_pair_call

\* Lines 216-217: a->tail = b, then b->tail = a.
test4_assign ==
    /\ test4_built
    /\ \/ assigned = 0 /\ set_tail(test4_a, test4_b)
       \/ assigned = 1 /\ set_tail(test4_b, test4_a)

\* The variant: the mutator drops b, or b and a, from the root stack.
test4_pop ==
    /\ test4_built
    /\ stack_size > 0
    /\ vm_pop

\* Line 218: gc(vm), once both assignments are made.
test4_gc ==
    /\ test4_built
    /\ assigned = 2
    /\ gc_call

\* Line 220: free_vm(vm).
test4_free ==
    /\ pc = "idle"
    /\ op = "gc"
    /\ free_vm_call

Test4Next ==
    \/ test4_push_int
    \/ test4_push_pair
    \/ test4_assign
    \/ test4_pop
    \/ test4_gc
    \/ test4_free
    \/ new_object
    \/ new_object_alloc
    \/ vm_push_int
    \/ vm_push_pair
    \/ gc
    \/ gc_mark_all
    \/ gc_mark_enter
    \/ gc_mark_head
    \/ gc_mark_tail
    \/ gc_mark_end
    \/ gc_sweep
    \/ gc_adjust

Test4 == Boot(Test4Limits) /\ [][Test4Next]_vars

(***************************************************************************)
(* Properties.                                                             *)
(***************************************************************************)
ToSet(q) == {q[k] : k \in 1..Len(q)}

\* The collection of the current operation has run and nothing has run
\* since: control is at the statement gc returned to.
JustCollected ==
    /\ pre.status \in {"swept", "noop"}
    /\ pc = ReturnFromGc

\* C1 (soundness): no object that was transitively reachable from the root
\* stack when a collection started is deallocated by it: during the
\* collection and after it, every such object is an allocated cell on the
\* heap chain, with the payload it had.
C1_Soundness ==
    pre.status # "none" =>
        \A a \in pre.reach :
            /\ a \in ChainSet
            /\ heap[a].alloc
            /\ heap[a].type = pre.heap[a].type
            /\ heap[a].head = pre.heap[a].head
            /\ heap[a].tail = pre.heap[a].tail
            /\ heap[a].value = pre.heap[a].value

\* A collection has freed garbage and kept a Pair together with objects
\* that are reachable only through it.
C1_Witness ==
    /\ JustCollected
    /\ pre.status = "swept"
    /\ Len(Chain) < Len(pre.chain)
    /\ \E a \in pre.reach : a \notin Roots(pre.stack)

\* C2 (exactness): after a collection that started with live_count > 0 the
\* heap chain holds exactly the objects reachable from the root stack and
\* live_count is their number.
C2_Exactness ==
    JustCollected /\ pre.num > 0 =>
        /\ ChainSet = pre.reach
        /\ ChainSet = Reachable
        /\ object_num = Cardinality(pre.reach)
        /\ \A a \in Addr : heap[a].alloc <=> a \in pre.reach

\* A collection has reclaimed an object that had been pushed and popped,
\* while another object stayed reachable.
C2_Witness ==
    /\ JustCollected
    /\ pre.num > 0
    /\ pre.reach # {}
    /\ \E a \in ToSet(pre.chain) : a \notin pre.reach /\ ~heap[a].alloc

\* C3 (live_count is the chain length): between operations object_num is
\* the number of objects on the chain from first_object; new_object puts
\* exactly one new object at the head of the chain and adds 1; each sweep
\* step subtracts 1 exactly when it unlinks one object, and unlinks nothing
\* else.
C3_CountIsChainLength ==
    [][ /\ pc' \in {"idle", "freed"} => object_num' = Len(Chain')
        /\ pc = "alloc" /\ pc' # "abort" =>
               /\ Chain' = <<first_object'>> \o Chain
               /\ first_object' \notin ChainSet
               /\ object_num' = object_num + 1
        /\ pc = "gc_sweep" =>
               /\ object_num - object_num' = Len(Chain) - Len(Chain')
               /\ object_num - object_num' \in {0, 1}
               /\ ChainSet' \subseteq ChainSet
      ]_vars

\* A sweep has unlinked some objects and kept others.
C3_Witness ==
    /\ pc = "idle"
    /\ pre.status = "swept"
    /\ op = "gc"
    /\ 0 < object_num
    /\ object_num < pre.num
    /\ object_num = Len(Chain)

Max(a, b) == IF a >= b THEN a ELSE b

PushOps == {"vm_push_int", "vm_push_pair"}

CollectorPcs == {"gc", "gc_mark_all", "gc_mark", "gc_sweep", "gc_adjust"}

\* C6 (operands survive the collection vm_push_pair triggers): when
\* new_object collects inside vm_push_pair, the root stack still holds both
\* operands while the collection runs; they and everything reachable from
\* them stay on the heap chain; and the Pair's tail and head are the two
\* top entries the stack had, still allocated and on the chain.
C6_OperandsSurvive ==
    op = "vm_push_pair" /\ pre.status # "none" /\ Len(pre.stack) >= 2 =>
        LET n == Len(pre.stack)
            operands == {pre.stack[n], pre.stack[n - 1]}
        IN /\ pc \in CollectorPcs \cup {"alloc", "vm_push_pair"}
                  => stack = pre.stack
           /\ pre.num = pre.max
           /\ pc # "abort" =>
                  /\ Closure(operands) \subseteq ChainSet
                  /\ \A a \in Closure(operands) : heap[a].alloc
           /\ pc = "idle" =>
                  /\ heap[ret].tail = pre.stack[n]
                  /\ heap[ret].head = pre.stack[n - 1]
                  /\ stack = Append(SubSeq(pre.stack, 1, n - 2), ret)
                  /\ ret \notin Closure(operands)

\* vm_push_pair has returned a Pair after its allocation collected.
C6_Witness ==
    /\ pc = "idle"
    /\ op = "vm_push_pair"
    /\ pre.status = "swept"
    /\ heap[ret].type = OBJECT_TYPE_PAIR
    /\ heap[ret].head \in ChainSet
    /\ heap[ret].tail \in ChainSet

\* C7 (trigger): new_object collects exactly when live_count = threshold at
\* the moment it is called, and the collection is over before the object is
\* created: the step from line 81 enters gc iff the counts are equal; while
\* the collection runs the operation has no object yet and the chain is the
\* one the collection started with or a part of it; once the object exists
\* a collection was run iff the counts were equal at the call.
C7_Trigger ==
    op \in PushOps =>
        /\ pc = "new_object" => pre.status = "none" /\ ret = NULL
        /\ pc \in CollectorPcs =>
               /\ ret = NULL
               /\ object_num <= object_max
               /\ pre.status # "none" =>
                      pre.num = pre.max /\ ChainSet \subseteq ToSet(pre.chain)
        /\ pc = "alloc" =>
               /\ ret = NULL
               /\ IF pre.status = "none"
                  THEN object_num # object_max
                  ELSE JustCollected /\ pre.num = pre.max
        /\ pc \in PushOps \/ pc = "idle" =>
               /\ ret = first_object
               /\ ret \notin pre.reach
               /\ IF pre.status = "none"
                  THEN object_num - 1 # object_max
                  ELSE pre.status \in {"swept", "noop"} /\ pre.num = pre.max

\* An allocation asked for at live_count = threshold has collected and is
\* about to create its object.
C7_Witness ==
    /\ op = "vm_push_int"
    /\ pc = "alloc"
    /\ pre.status = "swept"
    /\ pre.num = pre.max
    /\ ret = NULL

\* The collector's state machine (section 4.3 of the design).
Phase ==
    IF pc \in {"gc_mark_all", "gc_mark"} THEN "Marking"
    ELSE IF pc \in {"gc_sweep", "gc_adjust"} THEN "Sweeping"
    ELSE "Idle"

NoDuplicates(q) == \A j, k \in 1..Len(q) : q[j] = q[k] => j = k

\* gc_mark has gone past its test and marked each object at most once, and
\* only reachable objects; once marking is over it has marked them all.
MarkedOnce ==
    /\ NoDuplicates(pre.entered)
    /\ ToSet(pre.entered) \subseteq pre.reach
    /\ Len(frames) <= Cardinality(pre.reach) + 1
    /\ pre.status \in {"sweeping", "swept"} => ToSet(pre.entered) = pre.reach

\* An upper bound on the number of steps the collector still has to take:
\* five for each unmarked object (gc_mark's own four steps on a Pair and
\* one to return), what is left of each gc_mark call on the C stack, two
\* for each root not yet visited, one for each object the sweep has not yet
\* passed, and one for each of the loop exits and line 163.
FrameCost(f) ==
    CASE f.at = "enter" -> 1
      [] f.at = "head" -> 5
      [] f.at = "tail" -> 3
      [] f.at = "end" -> 1

RECURSIVE SumCost(_)
SumCost(q) == IF q = <<>> THEN 0 ELSE FrameCost(Head(q)) + SumCost(Tail(q))

Unmarked == {a \in Addr : heap[a].alloc /\ heap[a].mark = 0}

RECURSIVE LenFrom(_, _)
LenFrom(a, fuel) ==
    IF a = NULL \/ fuel = 0 THEN 0 ELSE 1 + LenFrom(heap[a].next, fuel - 1)

Rank ==
    CASE pc = "gc" ->
             5 * Cardinality(Unmarked) + 2 * stack_size + Len(Chain) + 4
      [] pc = "gc_mark_all" ->
             5 * Cardinality(Unmarked) + 2 * (stack_size - i) + Len(Chain) + 3
      [] pc = "gc_mark" ->
             5 * Cardinality(Unmarked) + SumCost(frames)
                 + 2 * (stack_size - i - 1) + Len(Chain) + 3
      [] pc = "gc_sweep" -> LenFrom(Deref, lim.cells) + 2
      [] pc = "gc_adjust" -> 1
      [] OTHER -> 0

PhaseOrder ==
    Phase' # Phase =>
        <<Phase, Phase'>> \in {<<"Idle", "Marking">>,
                               <<"Marking", "Sweeping">>,
                               <<"Sweeping", "Idle">>}

RankDecreases ==
    pc \in CollectorPcs =>
        /\ Rank' < Rank
        /\ pc' \in CollectorPcs \/ pc' = ReturnFromGc

\* C8 (termination): every collection runs to completion on every object
\* graph, cyclic ones included.  gc_mark never marks (and so never descends
\* into) an object twice; the phases follow Idle -> Marking -> Sweeping ->
\* Idle; and the collector always has a next step until it returns, each of
\* which lowers the natural number Rank, so that it returns after at most
\* Rank steps.
C8_Terminates ==
    /\ []MarkedOnce
    /\ [](pc \in CollectorPcs => Rank > 0 /\ ENABLED Collect)
    /\ [][PhaseOrder]_vars
    /\ [][RankDecreases]_vars

Cyclic(h, p) ==
    /\ h[p].type = OBJECT_TYPE_PAIR
    /\ \/ h[p].head = p
       \/ h[p].tail = p
       \/ h[p].head # NULL /\ h[h[p].head].type = OBJECT_TYPE_PAIR
             /\ p \in {h[h[p].head].head, h[h[p].head].tail}
       \/ h[p].tail # NULL /\ h[h[p].tail].type = OBJECT_TYPE_PAIR
             /\ p \in {h[h[p].tail].head, h[h[p].tail].tail}

\* A collection of a graph with a reachable cycle has completed.
C8_Witness ==
    /\ JustCollected
    /\ pre.status = "swept"
    /\ \E p \in pre.reach : Cyclic(pre.heap, p)
    /\ Len(pre.entered) = Cardinality(pre.reach)

\* C9 (teardown): when free_vm has collected, live_count is 0, the heap
\* chain is empty and every cell has been freed, whatever the root stack
\* and the heap held.
C9_TeardownEmpties ==
    pc = "freed" =>
        /\ object_num = 0
        /\ first_object = NULL
        /\ Chain = <<>>
        /\ \A a \in Addr : ~heap[a].alloc

\* free_vm has reclaimed a heap of at least three objects with a cycle.
C9_Witness ==
    /\ pc = "freed"
    /\ pre.status = "swept"
    /\ Len(pre.chain) >= 3
    /\ \E p \in ToSet(pre.chain) : Cyclic(pre.heap, p)
    /\ object_num = 0

\* C10 (idempotence): a gc called right after a gc returned, with no
\* mutator operation in between, frees nothing and leaves live_count, the
\* heap (chain and objects), the threshold and the root stack as the first
\* one left them.
C10_Idempotent ==
    pre.second /\ JustCollected =>
        /\ object_num = pre.num
        /\ Chain = pre.chain
        /\ heap = pre.heap
        /\ object_max = pre.max
        /\ stack = pre.stack

\* A second gc in a row has swept a heap that is not empty.
C10_Witness ==
    /\ pre.second
    /\ JustCollected
    /\ pre.status = "swept"
    /\ object_num > 0

\* The collection test4 called (line 218) has returned.
Test4Collected ==
    /\ pc = "idle"
    /\ op = "gc"
    /\ pre.status = "swept"

\* In heap h the Pairs a = (1, .) and b = (3, .) are each other's tail.
MutualCycle(h) ==
    /\ h[PairOf(h, 1)].tail = PairOf(h, 3)
    /\ h[PairOf(h, 3)].tail = PairOf(h, 1)

\* C11 (unrooted cycle): after push 1, push 2, push_pair (a), push 3,
\* push 4, push_pair (b), a.tail = b and b.tail = a, a collection that runs
\* while neither a nor b is on the root stack starts with six objects and
\* reclaims them all: live_count is 0, the heap chain is empty and every
\* cell is free.
C11_UnrootedCycle ==
    Test4Collected /\ pre.stack = <<>> =>
        /\ pre.num = 6
        /\ MutualCycle(pre.heap)
        /\ object_num = 0
        /\ first_object = NULL
        /\ \A c \in Addr : ~heap[c].alloc

\* The collection has returned after sweeping the unrooted cycle.
C11_Witness ==
    /\ Test4Collected
    /\ pre.stack = <<>>
    /\ Len(pre.chain) = 6
    /\ MutualCycle(pre.heap)
    /\ pre.entered = <<>>
    /\ object_num = 0

\* What test4 asserts, and which objects are kept.
C12_Result ==
    Test4Collected /\ Len(pre.stack) = 2 =>
        LET pa == PairOf(pre.heap, 1)
            pb == PairOf(pre.heap, 3)
            tails == {c \in Addr : pre.heap[c].value \in {2, 4}}
        IN /\ pre.stack = <<pa, pb>>
           /\ pre.num = 6
           /\ MutualCycle(pre.heap)
           /\ object_num = 4
           /\ ChainSet = {pa, pb, pre.heap[pa].head, pre.heap[pb].head}
           /\ Cardinality(ChainSet) = 4
           /\ heap[pa].tail = pb /\ heap[pb].tail = pa
           /\ Cardinality(tails) = 2
           /\ \A c \in tails : ~heap[c].alloc

\* C12 (rooted cycle, test4): with a and b both on the root stack and made
\* each other's tail, the collection terminates (it always has a next step,
\* each of which lowers Rank), keeps exactly a, b and their two head ints,
\* and frees the two ints that were their tails: live_count is 4.
C12_RootedCycle ==
    /\ []C12_Result
    /\ [](pc \in CollectorPcs => Rank > 0 /\ ENABLED Collect)
    /\ [][RankDecreases]_vars

\* test4's collection has returned with four objects left.
C12_Witness ==
    /\ Test4Collected
    /\ Len(pre.stack) = 2
    /\ MutualCycle(pre.heap)
    /\ Len(pre.entered) = 4
    /\ object_num = 4

\* From the call of vm_push_pair up to its last step the root stack is the
\* one it was called with.
StackHeldByPushPair ==
    op' = "vm_push_pair" /\ pc' \notin {"idle", "abort"} => stack' = stack

\* The last step of vm_push_pair on a stack of depth n >= 2.
PushPairStep ==
    pc = "vm_push_pair" /\ stack_size >= 2 =>
        LET n == stack_size
        IN /\ pc' = "idle"
           /\ heap'[ret'].type = OBJECT_TYPE_PAIR
           /\ heap'[ret'].tail = stack[n]
           /\ heap'[ret'].head = stack[n - 1]
           /\ Len(stack') = n - 1
           /\ stack'[n - 1] = ret'
           /\ ret' \notin ToSet(stack)
           /\ \A k \in 1..(n - 2) : stack'[k] = stack[k]
           /\ \A c \in Addr \ {ret'} : heap'[c] = heap[c]

\* C13 (vm_push_pair): on a root stack of depth n >= 2 the most recently
\* pushed entry becomes the new Pair's tail and the one pushed before it
\* the head; the new Pair is left on top, at depth n - 1; the n - 2 entries
\* below, and every other object, are unchanged.
C13_PushPairOrder ==
    /\ [][StackHeldByPushPair]_vars
    /\ [][PushPairStep]_vars

\* vm_push_pair has built b = (3, 4) on top of a.
C13_Witness ==
    /\ pc = "idle"
    /\ op = "vm_push_pair"
    /\ stack_size = 2
    /\ stack[2] = ret
    /\ stack[1] # ret
    /\ heap[stack[1]].type = OBJECT_TYPE_PAIR
    /\ heap[heap[ret].head].value = 3
    /\ heap[heap[ret].tail].value = 4

StackErrors == {"stack overflow", "stack underflow"}

\* The asserts of vm_push (line 69) and vm_pop (line 74), at the steps that
\* reach them: the push of vm_push_int, vm_pop called by the mutator, and
\* the two pops of vm_push_pair.
StackAsserts ==
    /\ pc = "vm_push_int" =>
           IF stack_size >= lim.stack_max
           THEN pc' = "abort" /\ err' = "stack overflow" /\ stack' = stack
           ELSE pc' = "idle" /\ err' = ""
    /\ pc = "idle" /\ op' = "vm_pop" =>
           IF stack_size = 0
           THEN pc' = "abort" /\ err' = "stack underflow" /\ stack' = stack
           ELSE pc' = "idle" /\ err' = ""
    /\ pc = "vm_push_pair" =>
           IF stack_size < 2
           THEN pc' = "abort" /\ err' = "stack underflow"
           ELSE pc' = "idle" /\ err' = ""

\* A failure is the end of the run: the message is set exactly when the
\* program has failed, and then no operation and no step of one is enabled.
Terminal ==
    /\ pc = "abort" <=> err # ""
    /\ pc = "abort" => ~ENABLED Next

\* A vm_push_pair called with fewer than two entries on the root stack
\* does not return.
PairNeedsTwo ==
    op' = "vm_push_pair" /\ pc' = "idle" => stack_size >= 2

\* C14 (root-stack errors are fatal and terminal): vm_push on a full root
\* stack fails with "stack overflow", vm_pop on an empty one with "stack
\* underflow", vm_push_pair with fewer than two entries with "stack
\* underflow" at its first or second pop; a failure is the last step of
\* the run.
C14_FatalStackErrors ==
    /\ []Terminal
    /\ [][StackAsserts]_vars
    /\ [][PairNeedsTwo]_vars
    /\ [][pc # "abort"]_vars

\* vm_push_int has failed on a full root stack.
C14_Witness ==
    /\ pc = "abort"
    /\ err = "stack overflow"
    /\ op = "vm_push_int"
    /\ stack_size = lim.stack_max

\* vm_pop has failed on an empty root stack.
C14_PopUnderflows ==
    /\ pc = "abort"
    /\ err = "stack underflow"
    /\ op = "vm_pop"
    /\ stack_size = 0

\* vm_push_pair has failed at its second pop.
C14_PairUnderflows ==
    /\ pc = "abort"
    /\ err = "stack underflow"
    /\ op = "vm_push_pair"
    /\ heap[ret].tail # NULL
    /\ heap[ret].head = NULL

\* gc entered with live_count = 0 returns to its caller in that one step,
\* which changes nothing of the VM.
NoopStep ==
    pc = "gc" /\ object_num = 0 =>
        /\ pc' = ReturnFromGc
        /\ pc' \notin CollectorPcs
        /\ UNCHANGED <<heap, first_object, object_num, object_max, stack>>

\* What a collection that took the early return has left.
NoopResult ==
    pre.status = "noop" /\ JustCollected =>
        /\ pre.num = 0
        /\ pre.entered = <<>>
        /\ object_num = pre.num
        /\ Chain = pre.chain
        /\ heap = pre.heap
        /\ object_max = pre.max
        /\ stack = pre.stack

\* C15 (no-op collection): a collection invoked with live_count = 0 does no
\* marking and no sweeping (gc returns at line 156 without entering either
\* phase) and leaves the heap chain, live_count, the threshold and the root
\* stack as they were.
C15_EmptyHeapNoop ==
    /\ [][NoopStep]_vars
    /\ []NoopResult

\* gc has been called on an empty heap, right after another collection,
\* and has returned.
C15_Witness ==
    /\ pc = "idle"
    /\ op = "gc"
    /\ pre.status = "noop"
    /\ pre.second
    /\ object_num = 0

\* vm_push_int has failed with root-stack overflow, or vm_push_pair with
\* root-stack underflow.
PushFailed ==
    /\ pc = "abort"
    /\ \/ op = "vm_push_int" /\ err = "stack overflow"
       \/ op = "vm_push_pair" /\ err = "stack underflow"

\* C16 as claimed: when vm_push_int fails with root-stack overflow or
\* vm_push_pair with root-stack underflow, the heap chain, live_count, the
\* threshold and the root stack are what they were when the operation was
\* called.
C16_AsClaimed ==
    PushFailed =>
        /\ Chain = pre.chain
        /\ object_num = pre.num
        /\ object_max = pre.max
        /\ stack = pre.stack

\* The objects of sequence q that are in set S, in the order of q.
RECURSIVE Keep(_, _)
Keep(q, S) ==
    IF q = <<>> THEN <<>>
    ELSE (IF Head(q) \in S THEN <<Head(q)>> ELSE <<>>) \o Keep(Tail(q), S)

\* C16 (amended): a failed vm_push_int or vm_push_pair is the last step of
\* the run, and it fails after new_object has done its work: the new
\* object is at the head of the heap chain and counted, not on the root
\* stack; if the allocation collected, the rest of the chain is what was
\* reachable and the threshold is the one set by that collection,
\* otherwise the rest of the chain and the threshold are as at the call.
\* The failed vm_push_int leaves the root stack as it was; the failed
\* vm_push_pair leaves it empty, having popped the single entry (now the
\* tail of the new Pair) if there was one.
C16_FailureAfterAllocation ==
    PushFailed =>
        /\ ~ENABLED Next
        /\ ret = first_object
        /\ heap[ret].alloc
        /\ ret \notin Reachable
        /\ object_num = Len(Chain)
        /\ IF pre.status = "none"
           THEN /\ Chain = <<ret>> \o pre.chain
                /\ object_num = pre.num + 1
                /\ object_max = pre.max
           ELSE /\ pre.status = "swept"
                /\ pre.num = pre.max
                /\ Chain = <<ret>> \o Keep(pre.chain, pre.reach)
                /\ object_num = Cardinality(pre.reach) + 1
                /\ object_max = IF pre.reach = {}
                                THEN GC_INITIAL_THRESHOLD
                                ELSE 2 * Cardinality(pre.reach)
        /\ op = "vm_push_int" =>
               /\ stack = pre.stack
               /\ stack_size = lim.stack_max
        /\ op = "vm_push_pair" =>
               /\ stack = <<>>
               /\ Len(pre.stack) < 2
               /\ heap[ret].head = NULL
               /\ heap[ret].tail =
                      IF pre.stack = <<>> THEN NULL ELSE pre.stack[1]

\* vm_push_int has failed on a full root stack after its allocation
\* collected and changed the threshold.
C16_Witness ==
    /\ PushFailed
    /\ op = "vm_push_int"
    /\ pre.status = "swept"
    /\ object_num = pre.num + 1
    /\ object_max # pre.max

\* vm_push_pair has failed after popping the only entry of the root stack.
C16_PairHalfApplied ==
    /\ PushFailed
    /\ op = "vm_push_pair"
    /\ Len(pre.stack) = 1
    /\ stack = <<>>

\* Outside the mark and sweep loops no cell carries a mark.
NoMarkLeft ==
    pc \notin {"gc_mark_all", "gc_mark", "gc_sweep"} =>
        \A c \in Addr : heap[c].mark = 0

\* A mark is set only by gc_mark, on an object of the chain that is
\* reachable from the roots of the collection in progress, and it is
\* cleared only by the sweep of that collection.
MarkSteps ==
    \A c \in Addr :
        heap'[c].mark # heap[c].mark =>
            IF heap'[c].mark # 0
            THEN pc = "gc_mark" /\ pre.status = "marking" /\ c \in pre.reach
            ELSE pc = "gc_sweep" /\ pre.status = "sweeping"
                     /\ c \in ToSet(pre.entered)

\* C17 (marks are clear between operations): whenever the collector is not
\* in its mark or sweep loop, in particular in every state between
\* operations, every object is unmarked; a mark is set only during the mark
\* phase and the sweep of the same collection clears it, so that the next
\* collection starts with no mark set.
C17_MarksClearWhenIdle ==
    /\ []NoMarkLeft
    /\ [][MarkSteps]_vars

\* A collection has marked objects, kept them and returned.
C17_Witness ==
    /\ pc = "idle"
    /\ pre.status = "swept"
    /\ Len(pre.entered) >= 2
    /\ ToSet(pre.entered) = ChainSet
    /\ \A c \in ChainSet : heap[c].mark = 0

\* C18 (threshold adaptation): when a collection that swept returns,
\* threshold is live_count * 2 if live_count > 0 and GC_INITIAL_THRESHOLD
\* otherwise; and in every reachable state threshold is not zero.
C18_ThresholdAfterSweep ==
    /\ object_max # 0
    /\ pre.status = "swept" /\ pc = ReturnFromGc =>
           IF object_num > 0
           THEN object_max = object_num * 2
           ELSE object_max = GC_INITIAL_THRESHOLD

\* A sweep that reclaimed every object has reset a threshold that was below
\* GC_INITIAL_THRESHOLD.
C18_Witness ==
    /\ pre.status = "swept"
    /\ pc = ReturnFromGc
    /\ op = "gc"
    /\ object_num = 0
    /\ pre.max < GC_INITIAL_THRESHOLD
    /\ object_max = GC_INITIAL_THRESHOLD

\* While a collection runs inside vm_push_int or vm_push_pair the
\* operation has no object yet.
CollectsBeforeObject ==
    op \in PushOps /\ pc \in CollectorPcs => ret = NULL

\* From the step that links the new object to the return of the
\* operation no step is a step of the collector: control goes from
\* new_object's allocation to the body of the operation and from there to
\* the caller (or the run fails), and the new object stays as linked.
NoCollectionAfterLink ==
    op \in PushOps =>
        /\ pc = "alloc" => pc' \in {op, "abort"}
        /\ pc \in PushOps =>
               /\ pc' \in {"idle", "abort"}
               /\ first_object' = ret /\ ret' = ret
               /\ heap'[ret].alloc
               /\ object_num' = object_num
               /\ object_max' = object_max

\* What vm_push_int and vm_push_pair return.
PushReturns ==
    op \in PushOps /\ pc = "idle" =>
        /\ ret # NULL
        /\ heap[ret].alloc
        /\ heap[ret].type = TypeOf(op)
        /\ ret = first_object
        /\ ret \in ChainSet
        /\ stack # <<>>
        /\ stack[stack_size] = ret
        /\ pre.status \in {"none", "swept"}
        /\ pre.status = "swept" =>
               /\ ret \notin ToSet(pre.entered)
               /\ object_num = Cardinality(pre.reach) + 1

\* C19 (no collection between linking and push): in vm_push_int and
\* vm_push_pair the only collection runs before the new object exists;
\* after new_object has linked the object no collector step is taken until
\* the operation returns; the object returned is allocated, at the head of
\* the heap chain and on top of the root stack, and it was not an object
\* of the collection its allocation triggered.
C19_NoCollectionAfterLink ==
    /\ []CollectsBeforeObject
    /\ []PushReturns
    /\ [][NoCollectionAfterLink]_vars

\* vm_push_int has returned its object after its allocation collected and
\* freed garbage.
C19_Witness ==
    /\ pc = "idle"
    /\ op = "vm_push_int"
    /\ pre.status = "swept"
    /\ Cardinality(pre.reach) < pre.num
    /\ stack[stack_size] = ret
    /\ ret \in ChainSet

\* C20 (live_count stays within the threshold): in every reachable state,
\* in particular between operations, live_count <= threshold; and when
\* new_object is about to create its object, after the collection it
\* triggered if live_count had reached the threshold, live_count is
\* strictly below the threshold, so that counting the new object cannot
\* pass it.
C20_CountWithinThreshold ==
    /\ object_num <= object_max
    /\ pc = "alloc" => object_num < object_max
    /\ pc = "alloc" /\ pre.status # "none" =>
           /\ pre.num = pre.max
           /\ object_num <= pre.num
           /\ object_num < object_max

\* Between operations live_count equals the threshold, after an
\* allocation that collected at the threshold.
C20_Witness ==
    /\ pc = "idle"
    /\ op \in PushOps
    /\ pre.status = "swept"
    /\ pre.num = pre.max
    /\ object_num = object_max

====
